---- MODULE Spec2Model ----
(***************************************************************************)
(* go-xattr-fuse: an overlay filesystem that keeps extended attributes in  *)
(* a bolt database (one bucket per path, one key per attribute name) and   *)
(* forwards every other operation to a loopback filesystem.                *)
(*                                                                         *)
(* The model follows src/go-xattr-fuse.go.  Each request handler runs on   *)
(* its own goroutine (a thread of Threads).  The bolt calls the handlers   *)
(* make are modelled by what they do for this program:                     *)
(*   db.Begin(true)   takes the database's writer lock (it blocks while    *)
(*                    another write transaction is open) and fails only    *)
(*                    when the database has been closed; the transaction   *)
(*                    works on the contents the database had at Begin;     *)
(*   tx.Bucket        nil when no bucket has that name;                    *)
(*   tx.CreateBucketIfNotExists  fails on the empty bucket name;           *)
(*   b.Put            fails on the empty key and changes nothing then;     *)
(*   b.Delete         deletes the key if present, no error otherwise;      *)
(*   tx.Commit        installs the transaction's changes or fails and      *)
(*                    rolls back; either way it releases the writer lock;  *)
(*   tx.Rollback      releases the writer lock of an open transaction, is  *)
(*                    a no-op on a closed one, and dereferences its        *)
(*                    receiver: on a nil *bolt.Tx it panics.               *)
(* GetXAttr returns the cursor's slice after its transaction has ended;    *)
(* the model gives the bytes that slice holds when the call returns.       *)
(*                                                                         *)
(* Specifications:                                                         *)
(*   Spec          the attribute operations and the shutdown of main;      *)
(*   DispatchSpec  the passthrough operations next to one attribute;       *)
(*   RaceSpec      two SetXAttr calls entering together;                   *)
(*   OrderSpec     a SetXAttr or RemoveXAttr on each of two goroutines,    *)
(*                 entering together;                                      *)
(*   UpsertSpec    SetXAttr with every value of its flags argument;        *)
(*   LiveSpec      the attribute operations on a healthy store, under      *)
(*                 fair scheduling.                                        *)
(***************************************************************************)
EXTENDS Integers, Sequences, FiniteSets, TLC

\* ---------------------------------------------------------------- bounds
\* Total number of filesystem calls issued in one run.
MaxCalls == 3
\* Of these, the passthrough calls come among the first MaxFsCalls.
MaxFsCalls == 2

\* ---------------------------------------------------------------- domains
\* Goroutines serving requests concurrently.
Threads == {1, 2}
\* Paths as pathfs hands them over; "" is the root of the mount.
Paths == {"", "a", "b"}
\* The paths the attribute calls of Spec are made on.
HotPaths == {"", "a"}
\* Attribute names; "" is the empty name.
Names == {"", "x", "y"}
\* The names in byte order, the order a bolt cursor visits keys in.
NameOrder == <<"", "x", "y">>
\* Attribute values (opaque byte strings).
Values == {"v1", "v2"}
\* A nil []byte.
Nil == "nil"
\* Results the backing filesystem may give (opaque to the overlay).
FsResults == {"OK", "ENOENT"}
\* The remaining arguments of a passthrough call (mode, flags, uid, ...).
Extras == {"e1"}
\* Paths of passthrough calls.
FsPaths == {"a", "b"}
\* The flags argument of SetXAttr: none, XATTR_CREATE, XATTR_REPLACE.
Flags == {0, 1, 2}

VARIABLES
    db,       \* committed contents of the bolt file: buckets and their keys
    opened,   \* the database is open (main closes it at shutdown)
    rwlock,   \* holders of bolt's writer lock (the open write transactions)
    th,       \* per goroutine: the call it serves and what it returned
    crashed,  \* the process died of a panic
    calls,    \* calls issued so far
    obs       \* what the callers have been told so far (history, see Observe)

vars == <<db, opened, rwlock, th, crashed, calls, obs>>

\* ---------------------------------------------------------------- store
EmptyDb == [buckets |-> {}, kv |-> {}]

\* tx.Bucket(name) != nil
Bucket(d, name) == name \in d.buckets

\* The keys of bucket `name` in cursor order (c.First(), c.Next(), ...).
Cursor(d, name) ==
    SelectSeq(NameOrder, LAMBDA k : \E v \in Values : <<name, k, v>> \in d.kv)

\* The value the cursor yields with key k.
CursorValue(d, name, k) == CHOOSE v \in Values : <<name, k, v>> \in d.kv

\* tx.CreateBucketIfNotExists([]byte(name))
CreateBucketIfNotExists(d, name) ==
    IF name = ""
    THEN [err |-> TRUE, db |-> d]
    ELSE [err |-> FALSE, db |-> [d EXCEPT !.buckets = @ \cup {name}]]

\* b.Put([]byte(attr), data) on bucket `name`
Put(d, name, attr, data) ==
    IF attr = ""
    THEN [err |-> TRUE, db |-> d]
    ELSE [err |-> FALSE,
          db |-> [d EXCEPT !.kv =
                    {e \in @ : ~(e[1] = name /\ e[2] = attr)}
                        \cup {<<name, attr, data>>}]]

\* A Delete that drops the bucket with its last key.
DeletePruning(d, name, attr) ==
    LET kept == {e \in d.kv : ~(e[1] = name /\ e[2] = attr)}
    IN [err |-> FALSE,
        db |-> [buckets |-> {b \in d.buckets :
                                b # name \/ \E e \in kept : e[1] = name},
                kv |-> kept]]

\* A Delete that leaves the key in place.
DeleteKept(d, name, attr) == [err |-> FALSE, db |-> d]

\* b.Delete([]byte(attr)) on bucket `name`
Delete(d, name, attr) ==
    [err |-> FALSE,
     db |-> [d EXCEPT !.kv = {e \in @ : ~(e[1] = name /\ e[2] = attr)}]]

\* A commit that installs the changes although it reports an error.
CommitTorn(d, txdb, commitErr) == txdb

\* tx.Commit(): the database becomes the transaction's contents txdb, or
\* stays d when the commit fails.
Commit(d, txdb, commitErr) == IF commitErr THEN d ELSE txdb

\* A writer lock that is handed out while it is held.
LockShared == TRUE

\* db.rwlock is free: db.Begin(true) goes on only then.
LockFree == rwlock = {}

\* ---------------------------------------------------------------- threads
Idle ==
    [pc |-> "idle", op |-> "none", name |-> "", attr |-> "", data |-> Nil,
     flags |-> 0,
     tx |-> "none", snap |-> EmptyDb,
     cerr |-> "none", status |-> "none", value |-> Nil,
     names |-> <<>>,
     args |-> <<>>, fwd |-> <<>>, bres |-> "none"]

\* A goroutine can take a new request.  Requests arrive while server.Serve()
\* runs; main closes the database only after Serve has returned, so no
\* request is taken once the database is closed (the ones in flight go on).
Ready(t) ==
    /\ ~crashed
    /\ opened
    /\ th[t].pc \in {"idle", "done"}
    /\ calls < MaxCalls

\* ---------------------------------------------------------------- history
\* obs records what the callers of the attribute operations were told:
\*   expect     <<path, attr, v>>: the last SetXAttr(path, attr, v) or
\*              RemoveXAttr(path, attr) (then v = Nil) that returned OK;
\*   removedOn  the paths a RemoveXAttr has returned OK on;
\*   told       per goroutine, for its last returned attribute call: what
\*              expect held for the call's (path, attr) when the call ran.
Untold == "untold"

NoObs ==
    [expect |-> {}, removedOn |-> {}, told |-> [t \in Threads |-> Untold]]

Expected(name, attr) ==
    IF \E v \in Values \cup {Nil} : <<name, attr, v>> \in obs.expect
    THEN CHOOSE v \in Values \cup {Nil} : <<name, attr, v>> \in obs.expect
    ELSE Untold

\* Goroutine t is handed a call.
ObserveCall(t) == obs' = [obs EXCEPT !.told[t] = Untold]

\* Goroutine t returns from an attribute call.
ObserveReturn(t) ==
    LET r == th'[t]
        others == {e \in obs.expect : ~(e[1] = r.name /\ e[2] = r.attr)}
        seen == [obs EXCEPT !.told[t] = Expected(r.name, r.attr)]
    IN obs' =
        IF r.pc # "done" THEN obs
        ELSE IF r.status = "OK" /\ r.op = "SetXAttr"
        THEN [seen EXCEPT !.expect = others \cup {<<r.name, r.attr, r.data>>}]
        ELSE IF r.status = "OK" /\ r.op = "RemoveXAttr"
        THEN [seen EXCEPT !.expect = others \cup {<<r.name, r.attr, Nil>>},
                          !.removedOn = @ \cup {r.name}]
        ELSE seen

Init ==
    /\ obs = NoObs
    /\ db = EmptyDb
    /\ opened = TRUE
    /\ rwlock = {}
    /\ th = [t \in Threads |-> Idle]
    /\ crashed = FALSE
    /\ calls = 0

\* The transport delivers an attribute call to goroutine t.
CallInFlags(t, P, N, V, F) ==
    /\ Ready(t)
    /\ \E op \in {"SetXAttr", "GetXAttr", "ListXAttr", "RemoveXAttr"} :
       \E name \in P :
       \E attr \in (IF op = "ListXAttr" THEN {""} ELSE N) :
       \E data \in (IF op = "SetXAttr" THEN V ELSE {Nil}) :
       \E flags \in (IF op = "SetXAttr" THEN F ELSE {0}) :
          th' = [th EXCEPT ![t] =
                    [Idle EXCEPT !.pc = "begin", !.op = op, !.name = name,
                                 !.attr = attr, !.data = data,
                                 !.flags = flags]]
    /\ calls' = calls + 1
    /\ ObserveCall(t)
    /\ UNCHANGED <<db, opened, rwlock, crashed>>

CallIn(t, P, N, V) == CallInFlags(t, P, N, V, {0})

Call(t) == CallIn(t, HotPaths, Names, Values)

\* A return without the deferred tx.Rollback().
ReturnLeaked(t, r) ==
    /\ crashed' = crashed
    /\ th' = [th EXCEPT ![t] = [r EXCEPT !.pc = "done"]]
    /\ rwlock' = rwlock

\* The function returns: its deferred tx.Rollback() runs, then the caller
\* gets the results.  r is the thread's record with the results filled in.
Return(t, r) ==
    IF r.tx = "nil"
    THEN \* tx.Rollback() on a nil *bolt.Tx: nil pointer dereference
         /\ crashed' = TRUE
         /\ th' = [th EXCEPT ![t] = [r EXCEPT !.pc = "panic",
                                              !.status = "none",
                                              !.value = Nil,
                                              !.names = <<>>]]
         /\ UNCHANGED rwlock
    ELSE /\ crashed' = crashed
         /\ th' = [th EXCEPT ![t] = [r EXCEPT !.pc = "done", !.tx = "closed",
                                              !.snap = EmptyDb]]
         /\ rwlock' = rwlock \ {t}

\* db.Begin(true) finds the writer lock taken: the goroutine blocks in
\* db.rwlock.Lock() until the lock is free.
BeginBlocked(t) ==
    /\ ~crashed
    /\ th[t].pc = "begin"
    /\ ~LockFree
    /\ th' = [th EXCEPT ![t].pc = "wait"]
    /\ UNCHANGED <<db, opened, rwlock, crashed, calls, obs>>

\* db.Begin(true) of SetXAttr, and the early return when it fails.
SetXAttrBegin(t) ==
    /\ ~crashed
    /\ th[t].pc \in {"begin", "wait"} /\ th[t].op = "SetXAttr"
    /\ LockFree
    /\ IF opened
       THEN /\ rwlock' = rwlock \cup {t}
            /\ th' = [th EXCEPT ![t].pc = "body", ![t].tx = "open",
                                ![t].snap = db]
       ELSE /\ th' = [th EXCEPT ![t].pc = "done", ![t].tx = "nil",
                                ![t].status = "EBUSY"]
            /\ UNCHANGED rwlock
    /\ UNCHANGED <<db, opened, crashed, calls, obs>>

\* The rest of SetXAttr: create the bucket, put, commit, return.
SetXAttrIn(t, CommitErrs) ==
    /\ ~crashed
    /\ th[t].pc = "body" /\ th[t].op = "SetXAttr"
    /\ LET c == CreateBucketIfNotExists(th[t].snap, th[t].name)
           p == Put(c.db, th[t].name, th[t].attr, th[t].data)
       IN IF c.err
          THEN /\ Return(t, [th[t] EXCEPT !.status = "EIO"])
               /\ db' = db
          ELSE \E commitErr \in CommitErrs :
                  /\ db' = Commit(db, p.db, commitErr)
                  /\ IF commitErr
                     THEN Return(t, [th[t] EXCEPT !.cerr = "err",
                                                 !.status = "EIO"])
                     ELSE Return(t, [th[t] EXCEPT !.cerr = "nil",
                                                 !.status = "OK"])
    /\ ObserveReturn(t)
    /\ UNCHANGED <<opened, calls>>

SetXAttr(t) == SetXAttrIn(t, BOOLEAN)

\* boltBucket(name): begin a write transaction and look the bucket up.
boltBucket(t) ==
    /\ ~crashed
    /\ th[t].pc \in {"begin", "wait"}
    /\ th[t].op \in {"GetXAttr", "ListXAttr", "RemoveXAttr"}
    /\ LockFree
    /\ IF ~opened
       THEN /\ th' = [th EXCEPT ![t].pc = "body", ![t].tx = "nil",
                                ![t].status = "EBUSY"]
            /\ UNCHANGED rwlock
       ELSE /\ rwlock' = rwlock \cup {t}
            /\ th' = [th EXCEPT ![t].pc = "body", ![t].tx = "open",
                                ![t].snap = db,
                                ![t].status =
                                    IF Bucket(db, th[t].name)
                                    THEN "OK" ELSE "ENOENT"]
    /\ UNCHANGED <<db, opened, crashed, calls, obs>>

\* The loop of GetXAttr over the cursor.
GetScan(d, name, attr) ==
    LET c == Cursor(d, name)
    IN IF \E i \in 1..Len(c) : c[i] = attr
       THEN CursorValue(d, name, attr)
       ELSE Nil

GetXAttr(t) ==
    /\ ~crashed
    /\ th[t].pc = "body" /\ th[t].op = "GetXAttr"
    /\ IF th[t].status # "OK"
       THEN Return(t, th[t])
       ELSE Return(t, [th[t] EXCEPT
                         !.value = GetScan(th[t].snap, th[t].name,
                                           th[t].attr)])
    /\ ObserveReturn(t)
    /\ UNCHANGED <<db, opened, calls>>

\* The loop of ListXAttr: lis starts as one empty string, keys are appended,
\* lis[1:] is returned.
ListScan(d, name) ==
    LET lis == <<"">> \o Cursor(d, name)
    IN SubSeq(lis, 2, Len(lis))

ListXAttr(t) ==
    /\ ~crashed
    /\ th[t].pc = "body" /\ th[t].op = "ListXAttr"
    /\ IF th[t].status # "OK"
       THEN Return(t, th[t])
       ELSE Return(t, [th[t] EXCEPT
                         !.names = ListScan(th[t].snap, th[t].name)])
    /\ ObserveReturn(t)
    /\ UNCHANGED <<db, opened, calls>>

RemoveXAttrIn(t, CommitErrs) ==
    /\ ~crashed
    /\ th[t].pc = "body" /\ th[t].op = "RemoveXAttr"
    /\ IF th[t].status # "OK"
       THEN /\ Return(t, th[t])
            /\ db' = db
       ELSE LET r == Delete(th[t].snap, th[t].name, th[t].attr)
            IN \E commitErr \in CommitErrs :
                  /\ db' = Commit(db, r.db, commitErr)
                  /\ IF commitErr
                     THEN Return(t, [th[t] EXCEPT !.cerr = "err",
                                                 !.status = "EIO"])
                     ELSE Return(t, [th[t] EXCEPT !.cerr = "nil",
                                                 !.status = "OK"])
    /\ ObserveReturn(t)
    /\ UNCHANGED <<opened, calls>>

RemoveXAttr(t) == RemoveXAttrIn(t, BOOLEAN)

\* main, after server.Serve() has returned: db.Close() waits for the open
\* write transaction, then the database is closed.
Close ==
    /\ ~crashed
    /\ opened
    /\ LockFree
    /\ opened' = FALSE
    /\ UNCHANGED <<db, rwlock, th, crashed, calls, obs>>

Next ==
    \/ \E t \in Threads : Call(t)
    \/ \E t \in Threads : BeginBlocked(t)
    \/ \E t \in Threads : SetXAttrBegin(t)
    \/ \E t \in Threads : SetXAttr(t)
    \/ \E t \in Threads : boltBucket(t)
    \/ \E t \in Threads : GetXAttr(t)
    \/ \E t \in Threads : ListXAttr(t)
    \/ \E t \in Threads : RemoveXAttr(t)
    \/ Close

Spec == Init /\ [][Next]_vars

\* ---------------------------------------------------------------- overlay
\* A passthrough call that also drops the collection of its first argument.
BackingPurging(t, op, args, r, ret) ==
    /\ Ready(t)
    /\ calls < MaxFsCalls
    /\ th' = [th EXCEPT ![t] =
                [Idle EXCEPT !.pc = "done", !.op = op, !.args = args,
                             !.fwd = <<[op |-> op, args |-> args]>>,
                             !.bres = r, !.status = ret]]
    /\ calls' = calls + 1
    /\ ObserveCall(t)
    /\ db' = [buckets |-> db.buckets \ {args[1]},
              kv |-> {e \in db.kv : e[1] # args[1]}]
    /\ UNCHANGED <<opened, rwlock, crashed>>

\* One call of the embedded pathfs.FileSystem: the backing filesystem gets
\* (op, args) and answers with any result r; the handler hands back `ret`.
Backing(t, op, args, r, ret) ==
    /\ Ready(t)
    /\ calls < MaxFsCalls
    /\ th' = [th EXCEPT ![t] =
                [Idle EXCEPT !.pc = "done", !.op = op, !.args = args,
                             !.fwd = <<[op |-> op, args |-> args]>>,
                             !.bres = r, !.status = ret]]
    /\ calls' = calls + 1
    /\ ObserveCall(t)
    /\ UNCHANGED <<db, opened, rwlock, crashed>>

\* return x.FileSystem.<op>(args...)
Redirect(t, op, args) == \E r \in FsResults : Backing(t, op, args, r, r)

GetAttr(t) == \E name \in FsPaths : Redirect(t, "GetAttr", <<name>>)

Readlink(t) == \E name \in FsPaths : Redirect(t, "Readlink", <<name>>)

Mknod(t) ==
    \E name \in FsPaths, mode \in Extras : Redirect(t, "Mknod", <<name, mode>>)

Mkdir(t) ==
    \E name \in FsPaths, mode \in Extras : Redirect(t, "Mkdir", <<name, mode>>)

Unlink(t) == \E name \in FsPaths : Redirect(t, "Unlink", <<name>>)

Rmdir(t) == \E name \in FsPaths : Redirect(t, "Rmdir", <<name>>)

Symlink(t) ==
    \E value \in FsPaths, linkName \in FsPaths :
        Redirect(t, "Symlink", <<value, linkName>>)

Rename(t) ==
    \E oldName \in FsPaths, newName \in FsPaths :
        Redirect(t, "Rename", <<oldName, newName>>)

Link(t) ==
    \E oldName \in FsPaths, newName \in FsPaths :
        Redirect(t, "Link", <<oldName, newName>>)

Chmod(t) ==
    \E name \in FsPaths, mode \in Extras : Redirect(t, "Chmod", <<name, mode>>)

Chown(t) ==
    \E name \in FsPaths, ids \in Extras : Redirect(t, "Chown", <<name, ids>>)

Truncate(t) ==
    \E name \in FsPaths, offset \in Extras :
        Redirect(t, "Truncate", <<name, offset>>)

Open(t) ==
    \E name \in FsPaths, flags \in Extras : Redirect(t, "Open", <<name, flags>>)

OpenDir(t) == \E name \in FsPaths : Redirect(t, "OpenDir", <<name>>)

Access(t) ==
    \E name \in FsPaths, mode \in Extras : Redirect(t, "Access", <<name, mode>>)

Create(t) ==
    \E name \in FsPaths, flagsMode \in Extras :
        Redirect(t, "Create", <<name, flagsMode>>)

Utimens(t) ==
    \E name \in FsPaths, times \in Extras :
        Redirect(t, "Utimens", <<name, times>>)

\* StatFs logs the name and returns nil.
StatFs(t) ==
    /\ Ready(t)
    /\ calls < MaxFsCalls
    /\ \E name \in FsPaths :
          th' = [th EXCEPT ![t] =
                    [Idle EXCEPT !.pc = "done", !.op = "StatFs",
                                 !.args = <<name>>, !.status = Nil]]
    /\ calls' = calls + 1
    /\ ObserveCall(t)
    /\ UNCHANGED <<db, opened, rwlock, crashed>>

\* The operations the overlay hands to the backing filesystem.
PassthroughOps ==
    {"GetAttr", "Readlink", "Mknod", "Mkdir", "Unlink", "Rmdir", "Symlink",
     "Rename", "Link", "Chmod", "Chown", "Truncate", "Open", "OpenDir",
     "Access", "Create", "Utimens", "StatFs"}

\* The dispatcher with a single attribute (path "a", name "x", value "v1")
\* next to the whole passthrough surface.
DispatchNext ==
    \/ \E t \in Threads : CallIn(t, {"a"}, {"x"}, {"v1"})
    \/ \E t \in Threads : BeginBlocked(t)
    \/ \E t \in Threads : SetXAttrBegin(t)
    \/ \E t \in Threads : SetXAttr(t)
    \/ \E t \in Threads : boltBucket(t)
    \/ \E t \in Threads : GetXAttr(t)
    \/ \E t \in Threads : ListXAttr(t)
    \/ \E t \in Threads : RemoveXAttr(t)
    \/ \E t \in Threads : GetAttr(t)
    \/ \E t \in Threads : Readlink(t)
    \/ \E t \in Threads : Mknod(t)
    \/ \E t \in Threads : Mkdir(t)
    \/ \E t \in Threads : Unlink(t)
    \/ \E t \in Threads : Rmdir(t)
    \/ \E t \in Threads : Symlink(t)
    \/ \E t \in Threads : Rename(t)
    \/ \E t \in Threads : Link(t)
    \/ \E t \in Threads : Chmod(t)
    \/ \E t \in Threads : Chown(t)
    \/ \E t \in Threads : Truncate(t)
    \/ \E t \in Threads : Open(t)
    \/ \E t \in Threads : OpenDir(t)
    \/ \E t \in Threads : Access(t)
    \/ \E t \in Threads : Create(t)
    \/ \E t \in Threads : Utimens(t)
    \/ \E t \in Threads : StatFs(t)

DispatchSpec == Init /\ [][DispatchNext]_vars

\* ---------------------------------------------------------------- race
\* Two callers enter SetXAttr together, on one path, with different names.
CallPair ==
    /\ ~crashed
    /\ opened
    /\ \A t \in Threads : th[t].pc \in {"idle", "done"}
    /\ calls + 2 <= MaxCalls
    /\ \E name \in Paths, a1 \in Names, a2 \in Names, d1 \in Values,
          d2 \in Values :
          /\ a1 # a2
          /\ th' = [t \in Threads |->
                      [Idle EXCEPT !.pc = "begin", !.op = "SetXAttr",
                                   !.name = name,
                                   !.attr = IF t = 1 THEN a1 ELSE a2,
                                   !.data = IF t = 1 THEN d1 ELSE d2]]
    /\ calls' = calls + 2
    /\ obs' = [obs EXCEPT !.told = [t \in Threads |-> Untold]]
    /\ UNCHANGED <<db, opened, rwlock, crashed>>

RaceNext ==
    \/ CallPair
    \/ \E t \in Threads : BeginBlocked(t)
    \/ \E t \in Threads : SetXAttrBegin(t)
    \/ \E t \in Threads : SetXAttr(t)

RaceSpec == Init /\ [][RaceNext]_vars

\* ---------------------------------------------------------------- order
\* Two callers enter together, each with a SetXAttr or a RemoveXAttr.
CallBoth ==
    /\ ~crashed
    /\ opened
    /\ \A t \in Threads : th[t].pc \in {"idle", "done"}
    /\ calls + 2 <= MaxCalls
    /\ \E op \in [Threads -> {"SetXAttr", "RemoveXAttr"}],
          name \in [Threads -> HotPaths], attr \in [Threads -> Names],
          data \in [Threads -> Values] :
          th' = [t \in Threads |->
                    [Idle EXCEPT !.pc = "begin", !.op = op[t],
                                 !.name = name[t], !.attr = attr[t],
                                 !.data = IF op[t] = "SetXAttr"
                                          THEN data[t] ELSE Nil]]
    /\ calls' = calls + 2
    /\ obs' = [obs EXCEPT !.told = [t \in Threads |-> Untold]]
    /\ UNCHANGED <<db, opened, rwlock, crashed>>

OrderNext ==
    \/ CallBoth
    \/ \E t \in Threads : BeginBlocked(t)
    \/ \E t \in Threads : SetXAttrBegin(t)
    \/ \E t \in Threads : SetXAttr(t)
    \/ \E t \in Threads : boltBucket(t)
    \/ \E t \in Threads : RemoveXAttr(t)

OrderSpec == Init /\ [][OrderNext]_vars

\* ---------------------------------------------------------------- upsert
\* Calls on the root and on one path, SetXAttr with each value of flags.
UpsertCall(t) == CallInFlags(t, HotPaths, {"", "x"}, Values, Flags)

UpsertNext ==
    \/ \E t \in Threads : UpsertCall(t)
    \/ \E t \in Threads : BeginBlocked(t)
    \/ \E t \in Threads : SetXAttrBegin(t)
    \/ \E t \in Threads : SetXAttr(t)
    \/ \E t \in Threads : boltBucket(t)
    \/ \E t \in Threads : GetXAttr(t)
    \/ \E t \in Threads : ListXAttr(t)
    \/ \E t \in Threads : RemoveXAttr(t)

UpsertSpec == Init /\ [][UpsertNext]_vars

\* ---------------------------------------------------------------- liveness
\* The store is healthy (it stays open and every commit persists); calls on
\* every path run side by side.
LiveCall(t) == CallIn(t, Paths, {"x"}, {"v1"})

LiveSetXAttr(t) == SetXAttrIn(t, {FALSE})

LiveRemoveXAttr(t) == RemoveXAttrIn(t, {FALSE})

LiveNext ==
    \/ \E t \in Threads : LiveCall(t)
    \/ \E t \in Threads : BeginBlocked(t)
    \/ \E t \in Threads : SetXAttrBegin(t)
    \/ \E t \in Threads : LiveSetXAttr(t)
    \/ \E t \in Threads : boltBucket(t)
    \/ \E t \in Threads : GetXAttr(t)
    \/ \E t \in Threads : ListXAttr(t)
    \/ \E t \in Threads : LiveRemoveXAttr(t)

\* A goroutine that can run does run; sync.Mutex hands the writer lock to a
\* goroutine that keeps waiting for it (starvation mode), hence SF on the
\* steps that take the lock.
LiveFairness ==
    \A t \in Threads :
        /\ SF_vars(SetXAttrBegin(t))
        /\ SF_vars(boltBucket(t))
        /\ WF_vars(LiveSetXAttr(t))
        /\ WF_vars(GetXAttr(t))
        /\ WF_vars(ListXAttr(t))
        /\ WF_vars(LiveRemoveXAttr(t))

LiveSpec == Init /\ [][LiveNext]_vars /\ LiveFairness

TypeOK ==
    /\ db.buckets \subseteq Paths
    /\ db.kv \subseteq Paths \X Names \X Values
    /\ opened \in BOOLEAN
    /\ rwlock \subseteq Threads
    /\ crashed \in BOOLEAN
    /\ calls \in 0..MaxCalls

\* ================================================================ claims
\* Goroutine t's handler returns to its caller in this step.
Returned(t) == th[t].pc = "body" /\ th'[t].pc = "done"

Done(t, op) == th[t].pc = "done" /\ th[t].op = op

\* The calls reached the store in working order: the transaction began and
\* its commit, if attempted, persisted.
StoreHealthy(r) == r.tx # "nil" /\ r.cerr # "err"

\* C1: once SetXAttr(p,n,v) has returned OK, every GetXAttr(p,n) returns
\* (v, OK) until a later SetXAttr(p,n,_) or RemoveXAttr(p,n) commits.
\* obs.told[t] is the value of the last such SetXAttr when t's call ran.
C1_RoundTrip ==
    \A t \in Threads :
        (Done(t, "GetXAttr") /\ obs.told[t] \in Values) =>
            (th[t].status = "OK" /\ th[t].value = obs.told[t])

\* The round trip of C1 for the non-empty attribute names.
C1_RoundTripNamed ==
    \A t \in Threads :
        (Done(t, "GetXAttr") /\ obs.told[t] \in Values /\ th[t].attr # "") =>
            (th[t].status = "OK" /\ th[t].value = obs.told[t])

\* No SetXAttr and no RemoveXAttr has returned OK on path p.
NeverWritten(p) == \A e \in obs.expect : e[1] # p

\* C2: on a path never written by SetXAttr, GetXAttr returns no value and
\* ListXAttr returns the empty sequence, both with status OK.
C2_AbsentPathReads ==
    [][\A t \in Threads :
          (Returned(t) /\ th[t].op \in {"GetXAttr", "ListXAttr"}
                       /\ NeverWritten(th[t].name)) =>
              (th'[t].status = "OK" /\ th'[t].value = Nil
                                    /\ th'[t].names = <<>>)]_vars

\* What C2 says of the payloads alone, whatever the status.
C2_AbsentPathPayload ==
    [][\A t \in Threads :
          (Returned(t) /\ th[t].op \in {"GetXAttr", "ListXAttr"}
                       /\ NeverWritten(th[t].name)) =>
              (th'[t].value = Nil /\ th'[t].names = <<>>)]_vars

\* C3: when db.Begin fails, the operation returns EBUSY to its caller (the
\* process does not crash, the call does not hang) and holds no transaction.
C3_BeginFailure ==
    /\ ~crashed
    /\ \A t \in Threads :
          th[t].tx = "nil" =>
              /\ th[t].pc # "panic"
              /\ t \notin rwlock
              /\ th[t].status = "EBUSY"

\* C3 for SetXAttr alone.
C3_BeginFailureSet ==
    \A t \in Threads :
        (th[t].tx = "nil" /\ th[t].op = "SetXAttr") =>
            (th[t].pc = "done" /\ t \notin rwlock /\ th[t].status = "EBUSY")

\* The names SetXAttr has returned OK for on path p (and no RemoveXAttr
\* since).
SetNames(p) == {n \in Names : \E v \in Values : <<p, n, v>> \in obs.expect}

SeqSet(q) == {q[i] : i \in 1..Len(q)}

\* C4: after successful SetXAttr(p, n_i, _) for distinct names and no
\* RemoveXAttr on p, ListXAttr(p) returns OK with exactly those names, each
\* once.
C4_ListComplete ==
    [][\A t \in Threads :
          (Returned(t) /\ th[t].op = "ListXAttr"
                       /\ th[t].name \notin obs.removedOn
                       /\ SetNames(th[t].name) # {}) =>
              /\ th'[t].status = "OK"
              /\ SeqSet(th'[t].names) = SetNames(th[t].name)
              /\ Len(th'[t].names) = Cardinality(SetNames(th[t].name))]_vars

\* C4 for the non-empty attribute names.
C4_ListCompleteNamed ==
    [][\A t \in Threads :
          (Returned(t) /\ th[t].op = "ListXAttr"
                       /\ th[t].name \notin obs.removedOn
                       /\ SetNames(th[t].name) # {}) =>
              /\ th'[t].status = "OK"
              /\ SeqSet(th'[t].names) = SetNames(th[t].name) \ {""}
              /\ Len(th'[t].names) =
                    Cardinality(SetNames(th[t].name) \ {""})]_vars

\* C5: after RemoveXAttr(p,n) has returned OK, and until a later
\* SetXAttr(p,n,_), GetXAttr(p,n) returns no value with status OK, and a
\* second RemoveXAttr(p,n) returns OK (EIO only if its own commit fails).
\* obs.told[t] = Nil: that RemoveXAttr was the last word on (p,n) when t's
\* call ran.
C5_RemoveEffect ==
    \A t \in Threads :
        (th[t].pc = "done" /\ obs.told[t] = Nil) =>
            /\ th[t].op = "GetXAttr" =>
                  (th[t].status = "OK" /\ th[t].value = Nil)
            /\ th[t].op = "RemoveXAttr" =>
                  (th[t].status = "OK"
                      \/ (th[t].cerr = "err" /\ th[t].status = "EIO"))

\* A GetXAttr(p,n) has returned after a RemoveXAttr(p,n) returned OK.
C5_Witness ==
    \E t \in Threads :
        /\ Done(t, "GetXAttr")
        /\ obs.told[t] = Nil
        /\ th[t].status = "OK"
        /\ th[t].value = Nil

\* A second RemoveXAttr(p,n) has returned OK after the first.
C5_WitnessSecondRemove ==
    \E t \in Threads :
        /\ Done(t, "RemoveXAttr")
        /\ obs.told[t] = Nil
        /\ th[t].status = "OK"

\* C6: RemoveXAttr(p,n) returns OK whenever n is absent from p's
\* attributes, also when p has no collection, and leaves the store as it
\* was (unless the store itself fails the commit).
C6_RemoveAbsent ==
    [][\A t \in Threads :
          (Returned(t) /\ th[t].op = "RemoveXAttr"
                       /\ GetScan(db, th[t].name, th[t].attr) = Nil
                       /\ StoreHealthy(th'[t])) =>
              (th'[t].status = "OK" /\ db' = db)]_vars

\* C6 for the paths that have a collection.
C6_RemoveAbsentInBucket ==
    [][\A t \in Threads :
          (Returned(t) /\ th[t].op = "RemoveXAttr"
                       /\ Bucket(db, th[t].name)
                       /\ GetScan(db, th[t].name, th[t].attr) = Nil
                       /\ StoreHealthy(th'[t])) =>
              (th'[t].status = "OK" /\ db' = db)]_vars

\* C7: every passthrough operation calls the same operation of the backing
\* filesystem with the same arguments exactly once and returns its result.
C7_Passthrough ==
    \A t \in Threads :
        (th[t].pc = "done" /\ th[t].op \in PassthroughOps) =>
            /\ th[t].fwd = <<[op |-> th[t].op, args |-> th[t].args]>>
            /\ th[t].status = th[t].bres

\* C7 for the operations other than StatFs.
C7_PassthroughButStatFs ==
    \A t \in Threads :
        (th[t].pc = "done" /\ th[t].op \in PassthroughOps \ {"StatFs"}) =>
            /\ th[t].fwd = <<[op |-> th[t].op, args |-> th[t].args]>>
            /\ th[t].status = th[t].bres

\* Both callers of the race have returned.
BothReturned ==
    \A t \in Threads : Done(t, "SetXAttr") /\ StoreHealthy(th[t])

\* C8: two concurrent callers SetXAttr different names on one path: both
\* return OK, and once both have returned ListXAttr of the path has both
\* names and GetXAttr gives each caller's value.
C8_NoLostUpdate ==
    BothReturned =>
        \A t \in Threads :
            /\ th[t].status = "OK"
            /\ th[t].attr \in SeqSet(ListScan(db, th[t].name))
            /\ GetScan(db, th[t].name, th[t].attr) = th[t].data

\* C8 for non-empty names on a path other than the root.
C8_NoLostUpdateNamed ==
    (BothReturned /\ \A t \in Threads : th[t].name # "" /\ th[t].attr # "") =>
        \A t \in Threads :
            /\ th[t].status = "OK"
            /\ th[t].attr \in SeqSet(ListScan(db, th[t].name))
            /\ GetScan(db, th[t].name, th[t].attr) = th[t].data

InFlight(t) == th[t].pc \in {"begin", "wait", "body"}

SetInFlight(t) == InFlight(t) /\ th[t].op = "SetXAttr"

\* C9: concurrent SetXAttr(p1,...) and SetXAttr(p2,...), p1 # p2, both
\* eventually return OK, whatever other attribute operations run alongside.
C9_BothSucceed ==
    \A s \in Threads : \A t \in Threads \ {s} :
        (SetInFlight(s) /\ SetInFlight(t) /\ th[s].name # th[t].name)
            ~> (Done(s, "SetXAttr") /\ th[s].status = "OK")

\* The store's serialization holds no call up for ever: every call returns.
C9_EveryCallReturns ==
    \A t \in Threads : InFlight(t) ~> (th[t].pc = "done")

\* C10: SetXAttr on a path without a collection succeeds and creates exactly
\* one collection, keyed by that path; GetXAttr and ListXAttr create none.
C10_LazyCreation ==
    [][\A t \in Threads :
          /\ (Returned(t) /\ th[t].op = "SetXAttr"
                          /\ ~Bucket(db, th[t].name)
                          /\ StoreHealthy(th'[t])) =>
                 /\ th'[t].status = "OK"
                 /\ db'.buckets = db.buckets \cup {th[t].name}
          /\ (th[t].op \in {"GetXAttr", "ListXAttr"}
                 /\ th'[t].pc # th[t].pc) =>
                 db'.buckets = db.buckets]_vars

\* C10 without the requirement that the call succeeds.
C10_LazyCreationIfOK ==
    [][\A t \in Threads :
          /\ (Returned(t) /\ th[t].op = "SetXAttr"
                          /\ ~Bucket(db, th[t].name)
                          /\ th'[t].status = "OK") =>
                 db'.buckets = db.buckets \cup {th[t].name}
          /\ (th[t].op \in {"GetXAttr", "ListXAttr"}
                 /\ th'[t].pc # th[t].pc) =>
                 db'.buckets = db.buckets]_vars

\* What GetXAttr, ListXAttr and RemoveXAttr give their caller on path `name`
\* when the store is d and works: <<status, value, names>>.
Reply(d, op, name, attr) ==
    IF ~Bucket(d, name)
    THEN <<"ENOENT", Nil, <<>>>>
    ELSE <<"OK",
           IF op = "GetXAttr" THEN GetScan(d, name, attr) ELSE Nil,
           IF op = "ListXAttr" THEN ListScan(d, name) ELSE <<>>>>

\* Goroutine t returns from GetXAttr, ListXAttr or RemoveXAttr in this step,
\* the store having worked.
ReadReturned(t) ==
    /\ Returned(t)
    /\ th[t].op \in {"GetXAttr", "ListXAttr", "RemoveXAttr"}
    /\ StoreHealthy(th'[t])

\* Path p has no entries: it has no collection, or its collection has been
\* emptied by RemoveXAttr.
Emptied(p) ==
    /\ Cursor(db, p) = <<>>
    /\ Bucket(db, p) => p \in obs.removedOn

\* Reply is what the handlers return.
C11_ReplyReturned ==
    [][\A t \in Threads :
          ReadReturned(t) =>
              Reply(db, th[t].op, th[t].name, th[t].attr) =
                  <<th'[t].status, th'[t].value, th'[t].names>>]_vars

\* C11: a path whose collection holds no entries and a path with no
\* collection get the same status and payload from GetXAttr, ListXAttr and
\* RemoveXAttr: what a call returns on a path without entries (none was
\* ever set, or a RemoveXAttr has succeeded on it) is what the same call
\* returns on every path without entries.
C11_EmptyAsAbsent ==
    [][\A t \in Threads :
          (ReadReturned(t) /\ Emptied(th[t].name)) =>
              \A q \in Paths :
                  Emptied(q) =>
                      Reply(db, th[t].op, q, th[t].attr) =
                          <<th'[t].status, th'[t].value, th'[t].names>>]_vars

\* C11 for the payloads alone: no value, no names on either kind of path.
C11_EmptyAsAbsentPayload ==
    [][\A t \in Threads :
          (ReadReturned(t) /\ Cursor(db, th[t].name) = <<>>) =>
              \A q \in Paths :
                  Cursor(db, q) = <<>> =>
                      /\ Reply(db, th[t].op, q, th[t].attr)[2] = th'[t].value
                      /\ Reply(db, th[t].op, q, th[t].attr)[3] = th'[t].names
                      /\ th'[t].value = Nil
                      /\ th'[t].names = <<>>]_vars

\* C12: when the commit of SetXAttr or RemoveXAttr fails the call returns
\* EIO and the store holds exactly the collections and entries it held
\* before the call.
C12_CommitFailure ==
    [][\A t \in Threads :
          (Returned(t) /\ th[t].op \in {"SetXAttr", "RemoveXAttr"}
                       /\ th'[t].cerr = "err") =>
              (th'[t].status = "EIO" /\ db' = db)]_vars

\* A SetXAttr of a new value has failed to commit, and a RemoveXAttr of an
\* entry has: the value is not there, the entry still is.
C12_Witness ==
    \E s \in Threads : \E t \in Threads :
        /\ Done(s, "SetXAttr") /\ th[s].cerr = "err" /\ th[s].status = "EIO"
        /\ th[s].attr # ""
        /\ GetScan(db, th[s].name, th[s].attr) # th[s].data
        /\ Done(t, "RemoveXAttr") /\ th[t].cerr = "err"
        /\ th[t].status = "EIO"
        /\ GetScan(db, th[t].name, th[t].attr) # Nil

\* C13: an attribute operation that finds the write transaction held by
\* another operation returns EBUSY at once instead of waiting: the step it
\* takes out of its call to db.Begin under contention gives it the busy
\* status.
C13_BusyOnContention ==
    [][\A t \in Threads :
          (th[t].pc = "begin" /\ th'[t].pc # "begin" /\ rwlock \ {t} # {}) =>
              (th'[t].pc # "wait" /\ th'[t].status = "EBUSY")]_vars

\* EBUSY is the status of a failed db.Begin, and db.Begin fails only on a
\* closed database.
C13_BusyOnlyWhenClosed ==
    \A t \in Threads : th[t].status = "EBUSY" => (~opened /\ th[t].tx = "nil")

\* A goroutine that waits for the writer lock goes on to finish its call.
C13_WaiterProceeds ==
    \A t \in Threads : (th[t].pc = "wait") ~> (th[t].pc = "done")

\* The transaction of goroutine t commits in this step.
Committed(t) ==
    /\ Returned(t)
    /\ th[t].op \in {"SetXAttr", "RemoveXAttr"}
    /\ th'[t].cerr = "nil"

\* The store after the changes of call r have been made to store d.
Applied(d, r) ==
    IF r.op = "SetXAttr"
    THEN Put(CreateBucketIfNotExists(d, r.name).db, r.name, r.attr, r.data).db
    ELSE Delete(d, r.name, r.attr).db

OpenTx == {t \in Threads : th[t].tx = "open"}

\* C15: at every moment at most one attribute operation, read or write, on
\* any path, holds an open store transaction (the holder of the writer
\* lock).
C15_GlobalSerialization ==
    /\ Cardinality(OpenTx) <= 1
    /\ rwlock = OpenTx

\* A GetXAttr or ListXAttr holds the transaction while an operation on
\* another path waits for it.
C15_Witness ==
    \E s \in Threads : \E t \in Threads :
        /\ th[s].tx = "open" /\ th[s].op \in {"GetXAttr", "ListXAttr"}
        /\ th[t].pc = "wait" /\ th[t].name # th[s].name

\* C16: every transaction an attribute operation begins is ended before the
\* operation returns, whatever the way out; an operation begins at most one
\* transaction (a call's transaction goes none -> open -> closed), and none
\* outlives its operation.
C16_TxEnded ==
    [][\A t \in Threads :
          /\ th'[t].pc \in {"idle", "done"} =>
                 (th'[t].tx # "open" /\ t \notin rwlock')
          /\ (th[t].tx # "open" /\ th'[t].tx = "open") =>
                 (th[t].tx = "none" /\ th[t].pc \in {"begin", "wait"})
          /\ (th[t].tx = "open" /\ th'[t].tx # "open") =>
                 (th'[t].tx = "closed" /\ th'[t].pc = "done")]_vars

\* One call has returned ENOENT (missing collection) and one EIO (the
\* collection could not be created): both transactions are closed and the
\* writer lock is free.
C16_Witness ==
    \E s \in Threads : \E t \in Threads :
        /\ th[s].pc = "done" /\ th[s].status = "ENOENT"
        /\ th[s].tx = "closed"
        /\ Done(t, "SetXAttr") /\ th[t].status = "EIO"
        /\ th[t].cerr = "none" /\ th[t].tx = "closed"
        /\ rwlock = {}

\* The other ways out: a commit that failed and a commit that persisted.
C16_WitnessCommit ==
    \E s \in Threads : \E t \in Threads :
        /\ th[s].pc = "done" /\ th[s].cerr = "err" /\ th[s].tx = "closed"
        /\ th[t].pc = "done" /\ th[t].cerr = "nil" /\ th[t].tx = "closed"
        /\ rwlock = {}

\* C17: no store error is swallowed: when SetXAttr returns OK its entry is
\* in the store (the put was applied), when RemoveXAttr returns OK its
\* entry is gone; a put or delete the store rejects gives an error status.
C17_NoSwallowedError ==
    [][\A t \in Threads :
          (Returned(t) /\ th'[t].status = "OK") =>
              /\ th[t].op = "SetXAttr" =>
                    /\ ~Put(th[t].snap, th[t].name, th[t].attr,
                            th[t].data).err
                    /\ <<th[t].name, th[t].attr, th[t].data>> \in db'.kv
              /\ th[t].op = "RemoveXAttr" =>
                    /\ ~Delete(th[t].snap, th[t].name, th[t].attr).err
                    /\ GetScan(db', th[t].name, th[t].attr) = Nil]_vars

\* C17 for RemoveXAttr, and for SetXAttr of a non-empty name.
C17_NoSwallowedErrorNamed ==
    [][\A t \in Threads :
          (Returned(t) /\ th'[t].status = "OK") =>
              /\ (th[t].op = "SetXAttr" /\ th[t].attr # "") =>
                    /\ ~Put(th[t].snap, th[t].name, th[t].attr,
                            th[t].data).err
                    /\ <<th[t].name, th[t].attr, th[t].data>> \in db'.kv
              /\ th[t].op = "RemoveXAttr" =>
                    /\ ~Delete(th[t].snap, th[t].name, th[t].attr).err
                    /\ GetScan(db', th[t].name, th[t].attr) = Nil]_vars

\* Goroutine t takes a step of the operation it serves.
Steps(t) == th'[t] # th[t]

\* C18: the passthrough operations (Rename and Unlink among them), GetXAttr
\* and ListXAttr leave the attribute store as it is: every collection keeps
\* its entries and none is created.
C18_Frame ==
    [][\A t \in Threads :
          (Steps(t) /\ th'[t].op \in
                          PassthroughOps \cup {"GetXAttr", "ListXAttr"}) =>
              db' = db]_vars

\* Rename("a","b") has returned: the collection of "a" holds its entry and
\* "b" has no collection.
C18_Witness ==
    \E t \in Threads :
        /\ Done(t, "Rename") /\ th[t].args = <<"a", "b">>
        /\ th[t].status = "OK"
        /\ <<"a", "x", "v1">> \in db.kv
        /\ ~Bucket(db, "b")

\* Unlink("a") has returned and the collection of "a" holds its entry.
C18_WitnessUnlink ==
    \E t \in Threads :
        /\ Done(t, "Unlink") /\ th[t].args = <<"a">>
        /\ th[t].status = "OK"
        /\ <<"a", "x", "v1">> \in db.kv

\* How often name n occurs in the sequence q.
Count(q, n) == Cardinality({i \in 1..Len(q) : q[i] = n})

\* C19: SetXAttr is an unconditional upsert: SetXAttr(p,n,v2) after a
\* SetXAttr(p,n,v1) that succeeded returns OK for every value of flags,
\* after which GetXAttr(p,n) gives v2 and ListXAttr(p) has n exactly once.
C19_Upsert ==
    [][\A t \in Threads :
          (Returned(t) /\ th[t].op = "SetXAttr"
                       /\ Expected(th[t].name, th[t].attr) \in Values
                       /\ StoreHealthy(th'[t])) =>
              /\ th'[t].status = "OK"
              /\ GetScan(db', th[t].name, th[t].attr) = th[t].data
              /\ Count(ListScan(db', th[t].name), th[t].attr) = 1]_vars

\* C19 for the non-empty attribute names.
C19_UpsertNamed ==
    [][\A t \in Threads :
          (Returned(t) /\ th[t].op = "SetXAttr"
                       /\ Expected(th[t].name, th[t].attr) \in Values
                       /\ th[t].attr # ""
                       /\ StoreHealthy(th'[t])) =>
              /\ th'[t].status = "OK"
              /\ GetScan(db', th[t].name, th[t].attr) = th[t].data
              /\ Count(ListScan(db', th[t].name), th[t].attr) = 1]_vars

\* Names are unique within a collection: the cursor yields none twice.
C19_UniqueNames ==
    \A q \in Paths : \A n \in Names : Count(ListScan(db, q), n) <= 1

\* C20: the set of paths that have a collection never shrinks, whatever
\* the operation (RemoveXAttr of the last entry, Unlink, Rmdir, Rename), and
\* RemoveXAttr creates none.
C20_CollectionsPersist ==
    [][/\ db.buckets \subseteq db'.buckets
       /\ \A t \in Threads :
             (Steps(t) /\ th'[t].op = "RemoveXAttr") =>
                 db'.buckets = db.buckets]_vars

\* RemoveXAttr has removed the last entry of "a" and an Unlink, Rmdir or
\* Rename of "a" has returned: the collection of "a" is still there.
C20_Witness ==
    \E s \in Threads : \E t \in Threads :
        /\ Done(s, "RemoveXAttr") /\ th[s].status = "OK"
        /\ th[s].name = "a" /\ obs.told[s] \in Values
        /\ Done(t, "Unlink") \/ Done(t, "Rmdir") \/ Done(t, "Rename")
        /\ th[t].args[1] = "a" /\ th[t].status = "OK"
        /\ Bucket(db, "a") /\ Cursor(db, "a") = <<>>
====
